---- MODULE Spec2Model ----
(***************************************************************************)
(* The Timer Engine of src/main.py: the /time command handler, the         *)
(* TimerView control view (Pause/Resume and End buttons, update_embed,     *)
(* stop_timer), the per-timer watcher coroutine timer_task and the shared  *)
(* timer_update_loop, all running as cooperative tasks on one event loop.  *)
(*                                                                         *)
(* Every action is one run of a coroutine from one suspension point (an    *)
(* await) to the next.  Time is the wall clock in whole seconds; several   *)
(* steps may happen at the same instant, in any order.  A coroutine that   *)
(* is ready to run (an await that has returned, a sleep that has expired)  *)
(* runs before the clock advances: awaited I/O takes less than a second.   *)
(***************************************************************************)
EXTENDS Integers, Sequences, FiniteSets, TLC

\* ---------------------------------------------------------------- bounds
MaxTime == 2        \* the clock stops here
MaxDur == 2         \* the longest parsed duration of a /time request in Spec
LongDur == 61       \* the duration of the single timer of SpecLong
LongTime == 63      \* the clock stops here in SpecLong
MaxPause == 1       \* the longest pause, in seconds, in SpecLong
MaxClicks == 4      \* Pause/Resume clicks over a run
MaxEnds == 2        \* End clicks over a run
MaxDeletes == 1     \* messages deleted over a run
RaceTime == 1       \* the clock stops here in SpecRace
TwoTime == 1        \* the clock stops here in SpecTwo
MaxLen == 3         \* the longest duration text given to parse_duration
MaxInitial == 9     \* the longest initial duration given to create_timer_embed

\* ------------------------------------------------------ program constants
WarnSeconds == 60   \* remaining_seconds <= 60
SleepSeconds == 1   \* asyncio.sleep(1)
ShiftSeconds == 1   \* end_time += timedelta(seconds=1)
LoopSeconds == 1    \* @tasks.loop(seconds=1)
bar_length == 25    \* bar_length = 25

Timers == {1, 2}            \* the invocations of /time (each builds one view)
Ids == {"A", "B"}           \* timer_id: guild-channel-user
Durations == {1, MaxDur}

NoTime == -1                \* pause_start_time = None
NoEntry == [task |-> 0, view |-> 0, paused |-> FALSE]   \* key not in the dict

VARIABLES
    now,            \* datetime.now(), in seconds
    active_timers,  \* the registry: timer_id -> {'task', 'view', 'paused'}
    active_order,   \* the dict's key order (insertion order)
    timePc,         \* the /time handler of each invocation
    timerId,        \* its timer_id
    dur,            \* view.initial_duration = view.duration_seconds
    v_end_time,     \* view.end_time
    v_paused,       \* view.paused
    v_pause_start,  \* view.pause_start_time
    v_message,      \* view.message is set
    label,          \* the pause button's label in the view
    disabled,       \* item.disabled of the view's buttons
    pauseResult,    \* how the last pause_button call of the view ended
    endPc,          \* the end_button handler of each view
    msg,            \* the rendered message: none / live / deleted
    msgStatus,      \* the status field it shows
    msgRemaining,   \* the remaining seconds it shows
    msgDisabled,    \* its buttons are disabled
    taskPc,         \* the watcher task of each invocation
    w_end_time,     \* timer_task's local end_time
    warned,         \* timer_task's local one_minute_warning_sent
    w_remaining,    \* timer_task's local remaining_seconds
    wake,           \* when its asyncio.sleep(1) returns
    loopPc,         \* timer_update_loop: wait / edit / dead
    loopWake,       \* when its next iteration is due
    loopSnap,       \* the views left of list(active_timers.items())
    loopStatus,     \* the embed of the edit in flight: status
    loopRemaining,  \*   and remaining seconds
    life,           \* history: none/starting/active/finished/ended/removed
    runTime,        \* history: seconds spent active and not paused
    warnCalls,      \* history: channel.send("1 minute left") calls
    upCalls,        \* history: channel.send("Time's up") calls
    finPaused,      \* history: the timer was paused when the watcher finished it
    endClicked,     \* history: End was clicked on the view
    clicks,         \* Pause/Resume clicks so far
    ends,           \* End clicks so far
    deletes,        \* messages deleted so far
    purePc,         \* the function exercised on its own: off / input / done
    p_text,         \* parse_duration's duration_str
    p_total,        \* what parse_duration returned
    b_initial,      \* create_timer_embed's self.initial_duration
    b_remaining,    \* create_timer_embed's remaining_seconds
    b_filled        \* the filled_length it computed

viewVars == <<v_end_time, v_paused, v_pause_start, label>>
msgVars == <<msg, msgStatus, msgRemaining, msgDisabled>>
taskVars == <<taskPc, w_end_time, warned, w_remaining, wake>>
loopVars == <<loopPc, loopWake, loopSnap, loopStatus, loopRemaining>>
regVars == <<active_timers, active_order>>
startVars == <<timePc, timerId, dur, v_message>>
histVars == <<life, runTime, warnCalls, upCalls, finPaused, endClicked>>
pureVars == <<purePc, p_text, p_total, b_initial, b_remaining, b_filled>>
vars == <<now, regVars, startVars, viewVars, disabled, pauseResult, endPc, msgVars, taskVars, loopVars, histVars,
          clicks, ends, deletes, pureVars>>

LivePc == {"created", "sleep", "warn", "up", "edit"}

Registered(id) == active_timers[id] # NoEntry

Remove(s, x) == SelectSeq(s, LAMBDA y : y # x)

\* The phase the registry holds for the timer of view t: the 'paused' flag of
\* its entry, which is the flag the watcher reads.
Paused(t) ==
    /\ Registered(timerId[t])
    /\ active_timers[timerId[t]].view = t
    /\ active_timers[timerId[t]].paused

\* ------------------------------------------------------------------ Init
InitEngine ==
    /\ now = 0
    /\ active_timers = [i \in Ids |-> NoEntry]
    /\ active_order = <<>>
    /\ timePc = [t \in Timers |-> "idle"]
    /\ timerId = [t \in Timers |-> "A"]
    /\ dur = [t \in Timers |-> 0]
    /\ v_end_time = [t \in Timers |-> 0]
    /\ v_paused = [t \in Timers |-> FALSE]
    /\ v_pause_start = [t \in Timers |-> NoTime]
    /\ v_message = [t \in Timers |-> FALSE]
    /\ label = [t \in Timers |-> "Pause"]
    /\ disabled = [t \in Timers |-> FALSE]
    /\ pauseResult = [t \in Timers |-> "none"]
    /\ endPc = [t \in Timers |-> "idle"]
    /\ msg = [t \in Timers |-> "none"]
    /\ msgStatus = [t \in Timers |-> "none"]
    /\ msgRemaining = [t \in Timers |-> 0]
    /\ msgDisabled = [t \in Timers |-> FALSE]
    /\ taskPc = [t \in Timers |-> "none"]
    /\ w_end_time = [t \in Timers |-> 0]
    /\ warned = [t \in Timers |-> FALSE]
    /\ w_remaining = [t \in Timers |-> 0]
    /\ wake = [t \in Timers |-> 0]
    /\ loopPc = "wait"
    /\ loopWake = 0
    /\ loopSnap = <<>>
    /\ loopStatus = "none"
    /\ loopRemaining = 0
    /\ life = [t \in Timers |-> "none"]
    /\ runTime = [t \in Timers |-> 0]
    /\ warnCalls = [t \in Timers |-> 0]
    /\ upCalls = [t \in Timers |-> 0]
    /\ finPaused = [t \in Timers |-> FALSE]
    /\ endClicked = [t \in Timers |-> FALSE]
    /\ clicks = 0
    /\ ends = 0
    /\ deletes = 0

Init ==
    /\ InitEngine
    /\ purePc = "off"
    /\ p_text = <<>>
    /\ p_total = 0
    /\ b_initial = 0
    /\ b_remaining = 0
    /\ b_filled = 0

\* ------------------------------------------------------- the /time handler
\* A handler that stores the new view in the registry entry before it
\* rejects the request for an identity that has one.
TimeCall_StoresThenRejects(t, id, d) ==
    /\ timePc[t] = "idle"
    /\ \A u \in Timers : u < t => timePc[u] # "idle"
    /\ t = 1 => now = 0
    /\ timerId' = [timerId EXCEPT ![t] = id]
    /\ IF d <= 0
         THEN /\ timePc' = [timePc EXCEPT ![t] = "invalid"]
              /\ UNCHANGED <<dur, v_end_time, life, active_timers>>
         ELSE IF Registered(id)
         THEN /\ timePc' = [timePc EXCEPT ![t] = "collision"]
              /\ active_timers' = [active_timers EXCEPT ![id].view = t]
              /\ UNCHANGED <<dur, v_end_time, life>>
         ELSE /\ timePc' = [timePc EXCEPT ![t] = "send"]
              /\ dur' = [dur EXCEPT ![t] = d]
              /\ v_end_time' = [v_end_time EXCEPT ![t] = now + d]
              /\ life' = [life EXCEPT ![t] = "starting"]
              /\ UNCHANGED active_timers
    /\ UNCHANGED pureVars
    /\ UNCHANGED <<now, active_order, v_message, v_paused, v_pause_start,
                   label, disabled, pauseResult, endPc, msgVars,
                   taskVars, loopVars, runTime, warnCalls, upCalls,
                   finPaused, endClicked, clicks, ends, deletes>>

\* time(), lines 565-582: the duration check, the registry check, the view's
\* construction, up to the first await (interaction.response.send_message).
\* d is what parse_duration returned.  The invocations are numbered in the
\* order they arrive and the first one arrives at the clock's origin.
TimeCall(t, id, d) ==
    /\ timePc[t] = "idle"
    /\ \A u \in Timers : u < t => timePc[u] # "idle"
    /\ t = 1 => now = 0
    /\ timerId' = [timerId EXCEPT ![t] = id]
    /\ IF d <= 0
         THEN /\ timePc' = [timePc EXCEPT ![t] = "invalid"]
              /\ UNCHANGED <<dur, v_end_time, life>>
         ELSE IF Registered(id)
         THEN /\ timePc' = [timePc EXCEPT ![t] = "collision"]
              /\ UNCHANGED <<dur, v_end_time, life>>
         ELSE /\ timePc' = [timePc EXCEPT ![t] = "send"]
              /\ dur' = [dur EXCEPT ![t] = d]
              /\ v_end_time' = [v_end_time EXCEPT ![t] = now + d]
              /\ life' = [life EXCEPT ![t] = "starting"]
    /\ UNCHANGED pureVars
    /\ UNCHANGED <<now, regVars, v_message, v_paused, v_pause_start,
                   label, disabled, pauseResult, endPc, msgVars,
                   taskVars, loopVars, runTime, warnCalls, upCalls,
                   finPaused, endClicked, clicks, ends, deletes>>

\* send_message returns: the message with the "Starting..." embed and the
\* enabled buttons is in the channel; await interaction.original_response().
TimeSent(t) ==
    /\ timePc[t] = "send"
    /\ timePc' = [timePc EXCEPT ![t] = "fetch"]
    /\ msg' = [msg EXCEPT ![t] = "live"]
    /\ msgStatus' = [msgStatus EXCEPT ![t] = "Starting"]
    /\ msgRemaining' = [msgRemaining EXCEPT ![t] = dur[t]]
    /\ UNCHANGED pureVars
    /\ UNCHANGED <<now, regVars, timerId, dur, v_message, viewVars,
                   disabled, pauseResult, endPc, msgDisabled,
                   taskVars, loopVars, histVars, clicks, ends, deletes>>

\* original_response returns; lines 584-588: view.message, create_task and the
\* registry insert (an existing key keeps its place in the dict).
TimeRegister(t) ==
    /\ timePc[t] = "fetch"
    /\ timePc' = [timePc EXCEPT ![t] = "done"]
    /\ v_message' = [v_message EXCEPT ![t] = TRUE]
    /\ taskPc' = [taskPc EXCEPT ![t] = "created"]
    /\ active_timers' = [active_timers EXCEPT ![timerId[t]] =
                            [task |-> t, view |-> t, paused |-> FALSE]]
    /\ active_order' = IF Registered(timerId[t]) THEN active_order
                       ELSE Append(active_order, timerId[t])
    /\ life' = [life EXCEPT ![t] = "active"]
    /\ UNCHANGED pureVars
    /\ UNCHANGED <<now, timerId, dur, viewVars, disabled, pauseResult, endPc, msgVars, w_end_time, warned,
                   w_remaining, wake, loopVars, runTime, warnCalls, upCalls,
                   finPaused, endClicked, clicks, ends, deletes>>

\* ------------------------------------------------------------- stop_timer
\* TimerView.stop_timer, lines 232-236: looks the view's timer_id up in the
\* registry, cancels the task recorded there and deletes the key.  cancel()
\* ends a task that has not finished; it does nothing to one that has.
\* A stop_timer that stops every timer of the registry.
stop_timer_StopsAll(t) ==
    IF Registered(timerId[t])
      THEN [reg   |-> [i \in Ids |-> NoEntry],
            order |-> <<>>,
            tasks |-> [u \in Timers |->
                         IF taskPc[u] \in LivePc THEN "cancelled" ELSE taskPc[u]],
            hit   |-> active_timers[timerId[t]].task]
      ELSE [reg |-> active_timers, order |-> active_order, tasks |-> taskPc,
            hit |-> 0]

\* A stop_timer that cancels the task and leaves the key in the registry.
stop_timer_KeepsKey(t) ==
    IF Registered(timerId[t])
      THEN [reg   |-> active_timers,
            order |-> active_order,
            tasks |-> [taskPc EXCEPT ![active_timers[timerId[t]].task] =
                         IF @ \in LivePc THEN "cancelled" ELSE @],
            hit   |-> active_timers[timerId[t]].task]
      ELSE [reg |-> active_timers, order |-> active_order, tasks |-> taskPc,
            hit |-> 0]

\* A stop_timer that deletes the key and forgets to cancel the task.
stop_timer_NoCancel(t) ==
    IF Registered(timerId[t])
      THEN [reg   |-> [active_timers EXCEPT ![timerId[t]] = NoEntry],
            order |-> Remove(active_order, timerId[t]),
            tasks |-> taskPc,
            hit   |-> 0]
      ELSE [reg |-> active_timers, order |-> active_order, tasks |-> taskPc,
            hit |-> 0]

stop_timer(t) ==
    IF Registered(timerId[t])
      THEN [reg   |-> [active_timers EXCEPT ![timerId[t]] = NoEntry],
            order |-> Remove(active_order, timerId[t]),
            tasks |-> [taskPc EXCEPT ![active_timers[timerId[t]].task] =
                         IF @ \in LivePc THEN "cancelled" ELSE @],
            hit   |-> active_timers[timerId[t]].task]
      ELSE [reg |-> active_timers, order |-> active_order, tasks |-> taskPc,
            hit |-> 0]

\* ------------------------------------------------------ timer_task (watcher)
\* Lines 613-616: the second read of the paused flag, the shift of end_time
\* and asyncio.sleep(1).  A missing key raises KeyError and ends the task.
Line613(t, e) ==
    IF ~Registered(timerId[t])
      THEN /\ taskPc' = [taskPc EXCEPT ![t] = "failed"]
           /\ UNCHANGED <<w_end_time, wake>>
      ELSE /\ taskPc' = [taskPc EXCEPT ![t] = "sleep"]
           /\ w_end_time' = [w_end_time EXCEPT ![t] =
                 IF active_timers[timerId[t]].paused THEN e + ShiftSeconds ELSE e]
           /\ wake' = [wake EXCEPT ![t] = now + SleepSeconds]

\* One pass of the while loop from line 595 to its first await, with e the
\* local end_time.  remaining_seconds is kept only across the await of the
\* 1-minute send, where line 603 reads it again.
WatcherIter(t, e) ==
    IF ~Registered(timerId[t])
      THEN /\ taskPc' = [taskPc EXCEPT ![t] = "failed"]
           /\ w_end_time' = [w_end_time EXCEPT ![t] = e]
           /\ UNCHANGED <<w_remaining, wake, warnCalls, upCalls>>
    ELSE IF ~active_timers[timerId[t]].paused /\ e - now <= WarnSeconds /\ ~warned[t]
      THEN /\ taskPc' = [taskPc EXCEPT ![t] = "warn"]
           /\ w_end_time' = [w_end_time EXCEPT ![t] = e]
           /\ w_remaining' = [w_remaining EXCEPT ![t] = e - now]
           /\ warnCalls' = [warnCalls EXCEPT ![t] = @ + 1]
           /\ UNCHANGED <<wake, upCalls>>
    ELSE IF ~active_timers[timerId[t]].paused /\ e - now <= 0
      THEN /\ taskPc' = [taskPc EXCEPT ![t] = "up"]
           /\ w_end_time' = [w_end_time EXCEPT ![t] = e]
           /\ upCalls' = [upCalls EXCEPT ![t] = @ + 1]
           /\ UNCHANGED <<w_remaining, wake, warnCalls>>
    ELSE /\ Line613(t, e)
         /\ UNCHANGED <<w_remaining, warnCalls, upCalls>>

\* The task's first step, line 592: end_time = now + duration_seconds.
TaskStart(t) ==
    /\ taskPc[t] = "created"
    /\ WatcherIter(t, now + dur[t])
    /\ UNCHANGED pureVars
    /\ UNCHANGED <<now, regVars, startVars, viewVars, disabled,
                   pauseResult, endPc, msgVars, warned, loopVars,
                   life, runTime, finPaused, endClicked, clicks, ends, deletes>>

\* asyncio.sleep(1) returns, line 616, and the loop goes round.
TaskWake(t) ==
    /\ taskPc[t] = "sleep"
    /\ wake[t] <= now
    /\ WatcherIter(t, w_end_time[t])
    /\ UNCHANGED pureVars
    /\ UNCHANGED <<now, regVars, startVars, viewVars, disabled,
                   pauseResult, endPc, msgVars, warned, loopVars,
                   life, runTime, finPaused, endClicked, clicks, ends, deletes>>

\* A watcher that forgets to latch the flag.
SetWarned_NotLatched(t) == warned

\* Line 601: the flag is set once the send has returned.
SetWarned(t) == [warned EXCEPT ![t] = TRUE]

\* The 1-minute send returns, lines 600-603 and on.
WarnDone(t) ==
    /\ taskPc[t] = "warn"
    /\ warned' = SetWarned(t)
    /\ w_remaining' = [w_remaining EXCEPT ![t] = 0]
    /\ IF w_remaining[t] <= 0
         THEN /\ taskPc' = [taskPc EXCEPT ![t] = "up"]
              /\ upCalls' = [upCalls EXCEPT ![t] = @ + 1]
              /\ UNCHANGED <<w_end_time, wake>>
         ELSE /\ Line613(t, w_end_time[t])
              /\ UNCHANGED upCalls
    /\ UNCHANGED pureVars
    /\ UNCHANGED <<now, regVars, startVars, viewVars, disabled,
                   pauseResult, endPc, msgVars, loopVars, life,
                   runTime, warnCalls, finPaused, endClicked, clicks, ends, deletes>>

\* channel.send raises (no permission, channel gone): nothing in timer_task
\* catches it, the task ends with the exception.
SendFail(t) ==
    /\ taskPc[t] \in {"warn", "up"}
    /\ taskPc' = [taskPc EXCEPT ![t] = "failed"]
    /\ w_remaining' = [w_remaining EXCEPT ![t] = 0]
    /\ UNCHANGED pureVars
    /\ UNCHANGED <<now, regVars, startVars, viewVars, disabled,
                   pauseResult, endPc, msgVars, w_end_time, warned,
                   wake, loopVars, histVars, clicks, ends, deletes>>

\* The time's-up send returns, lines 605-609: stop_timer, the buttons of the
\* view disabled, view.message.edit(view=view) called.  When the task that
\* stop_timer cancelled is this very task, CancelledError is raised inside
\* that edit, at its first suspension: the request may or may not have left.
UpDone(t) ==
    /\ taskPc[t] = "up"
    /\ active_timers' = stop_timer(t).reg
    /\ active_order' = stop_timer(t).order
    /\ disabled' = [disabled EXCEPT ![t] = TRUE]
    /\ life' = [life EXCEPT ![t] = IF @ = "active" THEN "finished" ELSE @]
    /\ finPaused' = [finPaused EXCEPT ![t] = Paused(t)]
    /\ IF stop_timer(t).hit = t
         THEN /\ taskPc' = stop_timer(t).tasks
              /\ \E sent \in BOOLEAN :
                    msgDisabled' = [msgDisabled EXCEPT ![t] =
                                       IF sent /\ msg[t] = "live" THEN TRUE ELSE @]
         ELSE /\ taskPc' = [stop_timer(t).tasks EXCEPT ![t] = "edit"]
              /\ UNCHANGED msgDisabled
    /\ UNCHANGED pureVars
    /\ UNCHANGED <<now, startVars, viewVars, pauseResult,
                   endPc, msg, msgStatus, msgRemaining, w_end_time, warned,
                   w_remaining, wake, loopVars, runTime, warnCalls, upCalls,
                   endClicked, clicks, ends, deletes>>

\* The edit of line 609 returns and the loop breaks; a deleted message makes
\* it raise discord.NotFound.
EditDone(t) ==
    /\ taskPc[t] = "edit"
    /\ IF msg[t] = "live"
         THEN /\ taskPc' = [taskPc EXCEPT ![t] = "done"]
              /\ msgDisabled' = [msgDisabled EXCEPT ![t] = disabled[t]]
         ELSE /\ taskPc' = [taskPc EXCEPT ![t] = "failed"]
              /\ UNCHANGED msgDisabled
    /\ UNCHANGED pureVars
    /\ UNCHANGED <<now, regVars, startVars, viewVars, disabled,
                   pauseResult, endPc, msg, msgStatus, msgRemaining,
                   w_end_time, warned, w_remaining, wake, loopVars, histVars,
                   clicks, ends, deletes>>

\* ------------------------------------------------------ timer_update_loop
\* update_embed, lines 152-164: what the embed shows for the view right now.
\* A paused view shows self.duration_seconds.
ShownRemaining(t) == IF v_paused[t] THEN dur[t] ELSE v_end_time[t] - now

ShownStatus(t) ==
    IF ShownRemaining(t) <= 0 THEN "Finished"
    ELSE IF v_paused[t] THEN "Paused" ELSE "Running"

\* update_embed returns at once for a view without a message (line 149).
RECURSIVE SkipUnset(_)
SkipUnset(s) ==
    IF s = <<>> THEN s
    ELSE IF v_message[Head(s)] THEN s ELSE SkipUnset(Tail(s))

\* The for loop of lines 622-624 over what is left of the snapshot: up to the
\* await of the next message.edit, or to the end of this iteration.
LoopContinue(s) ==
    IF SkipUnset(s) = <<>>
      THEN /\ loopPc' = "wait"
           /\ loopWake' = now + LoopSeconds
           /\ loopSnap' = <<>>
           /\ loopStatus' = "none"
           /\ loopRemaining' = 0
      ELSE /\ loopPc' = "edit"
           /\ loopSnap' = SkipUnset(s)
           /\ loopStatus' = ShownStatus(Head(SkipUnset(s)))
           /\ loopRemaining' =
                 IF ShownRemaining(Head(SkipUnset(s))) <= 0 THEN 0
                 ELSE ShownRemaining(Head(SkipUnset(s)))
           /\ UNCHANGED loopWake

\* An iteration starts: list(active_timers.items()), line 622.
LoopFire ==
    /\ loopPc = "wait"
    /\ loopWake <= now
    /\ LoopContinue([i \in 1..Len(active_order) |->
                        active_timers[active_order[i]].view])
    /\ UNCHANGED pureVars
    /\ UNCHANGED <<now, regVars, startVars, viewVars, disabled,
                   pauseResult, endPc, msgVars, taskVars, histVars,
                   clicks, ends, deletes>>

\* message.edit(embed=embed) returns, lines 167-171: the message shows the
\* embed, or it is gone and discord.NotFound leads to stop_timer.
LoopEditDone ==
    /\ loopPc = "edit"
    /\ LET t == Head(loopSnap) IN
         IF msg[t] = "live"
           THEN /\ msgStatus' = [msgStatus EXCEPT ![t] = loopStatus]
                /\ msgRemaining' = [msgRemaining EXCEPT ![t] = loopRemaining]
                /\ UNCHANGED <<regVars, taskPc, life>>
           ELSE /\ active_timers' = stop_timer(t).reg
                /\ active_order' = stop_timer(t).order
                /\ taskPc' = stop_timer(t).tasks
                /\ life' = [life EXCEPT ![t] = IF @ = "active" THEN "removed" ELSE @]
                /\ UNCHANGED <<msgStatus, msgRemaining>>
    /\ LoopContinue(Tail(loopSnap))
    /\ UNCHANGED pureVars
    /\ UNCHANGED <<now, startVars, viewVars, disabled, pauseResult, endPc, msg, msgDisabled, w_end_time, warned,
                   w_remaining, wake, runTime, warnCalls, upCalls, finPaused,
                   endClicked, clicks, ends, deletes>>

\* message.edit raises something other than NotFound (Forbidden, a server
\* error): update_embed does not catch it and tasks.loop stops for good.
LoopEditFail ==
    /\ loopPc = "edit"
    /\ loopPc' = "dead"
    /\ loopSnap' = <<>>
    /\ loopStatus' = "none"
    /\ loopRemaining' = 0
    /\ UNCHANGED pureVars
    /\ UNCHANGED <<now, regVars, startVars, viewVars, disabled,
                   pauseResult, endPc, msgVars, taskVars, loopWake,
                   histVars, clicks, ends, deletes>>

\* ------------------------------------------------------------ the buttons
\* A button of a view can be clicked while the message shows it enabled.
Clickable(t) == msg[t] = "live" /\ ~msgDisabled[t]

\* A resume that shifts the end instant the way the watcher does, by one
\* second.
ResumedEndTime_OneSecond(t) == v_end_time[t] + ShiftSeconds

\* Lines 200-201: pause_duration = datetime.now() - self.pause_start_time and
\* self.end_time += pause_duration.
ResumedEndTime(t) == v_end_time[t] + (now - v_pause_start[t])

\* pause_button, lines 197-216.  active_timers[self.timer_id] raises KeyError
\* when the key is absent: the handler ends there, after the view's own
\* fields were written, with no acknowledgment.  Otherwise the acknowledgment
\* is sent and interaction.message.edit(view=self) shows the view's buttons
\* as they are.
PauseClick(t) ==
    /\ Clickable(t)
    /\ clicks < MaxClicks
    /\ clicks' = clicks + 1
    /\ IF v_paused[t]
         THEN /\ v_paused' = [v_paused EXCEPT ![t] = FALSE]
              /\ v_end_time' = [v_end_time EXCEPT ![t] = ResumedEndTime(t)]
              /\ label' = [label EXCEPT ![t] = "Pause"]
              /\ UNCHANGED v_pause_start
         ELSE /\ v_paused' = [v_paused EXCEPT ![t] = TRUE]
              /\ v_pause_start' = [v_pause_start EXCEPT ![t] = now]
              /\ label' = [label EXCEPT ![t] = "Resume"]
              /\ UNCHANGED v_end_time
    /\ IF Registered(timerId[t])
         THEN /\ active_timers' = [active_timers EXCEPT
                                     ![timerId[t]].paused = ~v_paused[t]]
              /\ pauseResult' = [pauseResult EXCEPT ![t] = "ack"]
              /\ msgDisabled' = [msgDisabled EXCEPT ![t] = disabled[t]]
         ELSE /\ pauseResult' = [pauseResult EXCEPT ![t] = "KeyError"]
              /\ UNCHANGED <<active_timers, msgDisabled>>
    /\ UNCHANGED pureVars
    /\ UNCHANGED <<now, active_order, startVars, disabled, endPc,
                   msg, msgStatus, msgRemaining, taskVars, loopVars, histVars,
                   ends, deletes>>

\* end_button, lines 221-222: stop_timer, then the acknowledgment.  A second
\* click while the first is being served runs the same steps again.
EndClick(t) ==
    /\ Clickable(t)
    /\ ends < MaxEnds
    /\ ends' = ends + 1
    /\ active_timers' = stop_timer(t).reg
    /\ active_order' = stop_timer(t).order
    /\ taskPc' = stop_timer(t).tasks
    /\ endPc' = [endPc EXCEPT ![t] = "ack"]
    /\ endClicked' = [endClicked EXCEPT ![t] = TRUE]
    /\ life' = [life EXCEPT ![t] = IF @ = "active" THEN "ended" ELSE @]
    /\ UNCHANGED pureVars
    /\ UNCHANGED <<now, startVars, viewVars, disabled, pauseResult, msgVars, w_end_time, warned, w_remaining,
                   wake, loopVars, runTime, warnCalls, upCalls, finPaused,
                   clicks, deletes>>

\* The acknowledgment is out; lines 224-229: the buttons of the view are
\* disabled and self.message.edit shows the "Ended" embed with them
\* (self.message is None until line 584 has run: the edit raises).
EndFinish(t) ==
    /\ endPc[t] = "ack"
    /\ endPc' = [endPc EXCEPT ![t] = "idle"]
    /\ disabled' = [disabled EXCEPT ![t] = TRUE]
    /\ IF msg[t] = "live" /\ v_message[t]
         THEN /\ msgStatus' = [msgStatus EXCEPT ![t] = "Ended"]
              /\ msgRemaining' = [msgRemaining EXCEPT ![t] = 0]
              /\ msgDisabled' = [msgDisabled EXCEPT ![t] = TRUE]
         ELSE UNCHANGED <<msgStatus, msgRemaining, msgDisabled>>
    /\ UNCHANGED pureVars
    /\ UNCHANGED <<now, regVars, startVars, viewVars,
                   pauseResult, msg, taskVars, loopVars, histVars,
                   clicks, ends, deletes>>

\* Somebody deletes the rendered message.
DeleteMessage(t) ==
    /\ msg[t] = "live"
    /\ deletes < MaxDeletes
    /\ deletes' = deletes + 1
    /\ msg' = [msg EXCEPT ![t] = "deleted"]
    /\ UNCHANGED pureVars
    /\ UNCHANGED <<now, regVars, startVars, viewVars, disabled,
                   pauseResult, endPc, msgStatus, msgRemaining,
                   msgDisabled, taskVars, loopVars, histVars, clicks, ends>>

\* ------------------------------------------------------------- the clock
\* Nothing is ready to run: no await has returned, no sleep has expired.
Quiet ==
    /\ \A t \in Timers :
          /\ timePc[t] \notin {"send", "fetch"}
          /\ taskPc[t] \notin {"created", "warn", "up", "edit"}
          /\ taskPc[t] = "sleep" => wake[t] > now
          /\ endPc[t] = "idle"
    /\ loopPc # "edit"
    /\ loopPc = "wait" => loopWake > now

AdvanceTo(h) ==
    /\ Quiet
    /\ now < h
    /\ now' = now + 1
    /\ runTime' = [t \in Timers |->
                     IF life[t] = "active" /\ ~Paused(t)
                       THEN runTime[t] + 1 ELSE runTime[t]]
    /\ UNCHANGED pureVars
    /\ UNCHANGED <<regVars, startVars, viewVars, disabled, pauseResult, endPc, msgVars, taskVars, loopVars, life,
                   warnCalls, upCalls, finPaused, endClicked, clicks, ends, deletes>>

\* One /time call at time 0 and everything that can happen to its timer.
\* (With one timer the watcher that reaches line 605 is always the task of
\* its registry entry, so the edit of line 609 never returns: no EditDone.)
Next ==
    \/ \E d \in Durations \cup {0} : TimeCall(1, "A", d)
    \/ \E t \in Timers : TimeSent(t)
    \/ \E t \in Timers : TimeRegister(t)
    \/ \E t \in Timers : TaskStart(t)
    \/ \E t \in Timers : TaskWake(t)
    \/ \E t \in Timers : WarnDone(t)
    \/ \E t \in Timers : SendFail(t)
    \/ \E t \in Timers : UpDone(t)
    \/ LoopFire
    \/ LoopEditDone
    \/ LoopEditFail
    \/ \E t \in Timers : PauseClick(t)
    \/ \E t \in Timers : EndClick(t)
    \/ \E t \in Timers : EndFinish(t)
    \/ \E t \in Timers : DeleteMessage(t)
    \/ AdvanceTo(MaxTime)

Spec == Init /\ [][Next]_vars

\* Two /time calls for the same identity, at any two moments (concurrent, or
\* one after the other), with the End button; no pause, no failure.
NextRace ==
    \/ \E t \in Timers : TimeCall(t, "A", 1)
    \/ \E t \in Timers : TimeSent(t)
    \/ \E t \in Timers : TimeRegister(t)
    \/ \E t \in Timers : TaskStart(t)
    \/ \E t \in Timers : TaskWake(t)
    \/ \E t \in Timers : WarnDone(t)
    \/ \E t \in Timers : UpDone(t)
    \/ \E t \in Timers : EditDone(t)
    \/ LoopFire
    \/ LoopEditDone
    \/ \E t \in Timers : EndClick(t)
    \/ \E t \in Timers : EndFinish(t)
    \/ AdvanceTo(RaceTime)

SpecRace == Init /\ [][NextRace]_vars

\* One /time call at time 0 for a duration above the 1-minute threshold, with
\* pauses of at most MaxPause seconds; sends may fail.
AdvanceLong ==
    /\ \A t \in Timers : v_paused[t] => now - v_pause_start[t] < MaxPause
    /\ AdvanceTo(LongTime)

NextLong ==
    \/ TimeCall(1, "A", LongDur)
    \/ \E t \in Timers : TimeSent(t)
    \/ \E t \in Timers : TimeRegister(t)
    \/ \E t \in Timers : TaskStart(t)
    \/ \E t \in Timers : TaskWake(t)
    \/ \E t \in Timers : WarnDone(t)
    \/ \E t \in Timers : SendFail(t)
    \/ \E t \in Timers : UpDone(t)
    \/ LoopFire
    \/ LoopEditDone
    \/ \E t \in Timers : PauseClick(t)
    \/ AdvanceLong

SpecLong == Init /\ [][NextLong]_vars

\* Two /time calls, for the same identity or for two, each with a duration
\* that parses to 0 or to 1 second, with the End button; no pause, no failure.
NextTwo ==
    \/ \E t \in Timers, id \in Ids, d \in {0, 1} : TimeCall(t, id, d)
    \/ \E t \in Timers : TimeSent(t)
    \/ \E t \in Timers : TimeRegister(t)
    \/ \E t \in Timers : TaskStart(t)
    \/ \E t \in Timers : TaskWake(t)
    \/ \E t \in Timers : WarnDone(t)
    \/ \E t \in Timers : UpDone(t)
    \/ \E t \in Timers : EditDone(t)
    \/ LoopFire
    \/ LoopEditDone
    \/ \E t \in Timers : EndClick(t)
    \/ \E t \in Timers : EndFinish(t)
    \/ AdvanceTo(TwoTime)

SpecTwo == Init /\ [][NextTwo]_vars

\* Two /time calls of one second each for two identities.  The timer of A is
\* paused, resumed, ended, left to expire or loses its message; the timer of
\* B is left to run.  No send and no edit fails.
NextFrame ==
    \/ TimeCall(1, "A", 1)
    \/ TimeCall(2, "B", 1)
    \/ \E t \in Timers : TimeSent(t)
    \/ \E t \in Timers : TimeRegister(t)
    \/ \E t \in Timers : TaskStart(t)
    \/ \E t \in Timers : TaskWake(t)
    \/ \E t \in Timers : WarnDone(t)
    \/ \E t \in Timers : UpDone(t)
    \/ LoopFire
    \/ LoopEditDone
    \/ PauseClick(1)
    \/ EndClick(1)
    \/ EndFinish(1)
    \/ DeleteMessage(1)
    \/ AdvanceTo(TwoTime)

SpecFrame == Init /\ [][NextFrame]_vars

\* ---------------------------------------------------------- parse_duration
\* The characters the duration texts are made of: two digits, the point, a
\* blank, unit letters in both cases and a letter that is no unit.
Chars == {"1", "5", ".", " ", "s", "m", "H", "x"}

Texts == UNION {[1..n -> Chars] : n \in 0..MaxLen}

\* \d of the pattern, and float()'s reading of a digit.
DigitValue(c) ==
    CASE c = "0" -> 0 [] c = "1" -> 1 [] c = "2" -> 2 [] c = "3" -> 3
      [] c = "4" -> 4 [] c = "5" -> 5 [] c = "6" -> 6 [] c = "7" -> 7
      [] c = "8" -> 8 [] c = "9" -> 9 [] OTHER -> -1

IsDigit(c) == DigitValue(c) >= 0

\* (h|m|s) under re.IGNORECASE and the multipliers of lines 552-557.
UnitSeconds(c) ==
    CASE c \in {"h", "H"} -> 3600
      [] c \in {"m", "M"} -> 60
      [] c \in {"s", "S"} -> 1
      [] OTHER -> 0

IsUnit(c) == UnitSeconds(c) > 0

\* \d* and \d+ are greedy: the first position from p on that holds no digit.
RECURSIVE DigitsEnd(_, _)
DigitsEnd(s, p) ==
    IF p <= Len(s) /\ IsDigit(s[p]) THEN DigitsEnd(s, p + 1) ELSE p

\* \s* is greedy: the first position from p on that holds no blank.
RECURSIVE SpacesEnd(_, _)
SpacesEnd(s, p) ==
    IF p <= Len(s) /\ s[p] = " " THEN SpacesEnd(s, p + 1) ELSE p

\* (\d*\.?\d+) tried at p: where the number ends, p itself when there is
\* none.  The point is taken only with a digit behind it; no shorter choice
\* of the three greedy parts is followed by a blank or a unit letter.
NumberEnd(s, p) ==
    LET a == DigitsEnd(s, p) IN
    IF a + 1 <= Len(s) /\ s[a] = "." /\ IsDigit(s[a + 1])
      THEN DigitsEnd(s, a + 1)
      ELSE a

\* re.findall from position p: the matches, left to right, none overlapping,
\* each as the number's first position, the position behind it and the
\* position of the unit letter.
RECURSIVE findall(_, _)
findall(s, p) ==
    IF p > Len(s) THEN <<>>
    ELSE LET e == NumberEnd(s, p)
             u == SpacesEnd(s, e)
         IN IF e > p /\ u <= Len(s) /\ IsUnit(s[u])
              THEN <<[from |-> p, to |-> e, unit |-> u]>> \o findall(s, u + 1)
              ELSE findall(s, p + 1)

RECURSIVE Pow10(_)
Pow10(n) == IF n <= 0 THEN 1 ELSE 10 * Pow10(n - 1)

\* The digits of s[p..e-1] read as one integer, the point left out.
RECURSIVE DigitsValue(_, _, _)
DigitsValue(s, p, e) ==
    IF e <= p THEN 0
    ELSE IF s[e - 1] = "." THEN DigitsValue(s, p, e - 1)
    ELSE 10 * DigitsValue(s, p, e - 1) + DigitValue(s[e - 1])

\* The digits behind the point.
Decimals(s, p, e) == IF DigitsEnd(s, p) < e THEN e - DigitsEnd(s, p) - 1 ELSE 0

\* float(value) times the unit's multiplier, in units of 10^-MaxLen second
\* (a number of a text has fewer than MaxLen decimals).
ScaledSeconds(s, m) ==
    DigitsValue(s, m.from, m.to) * Pow10(MaxLen - Decimals(s, m.from, m.to))
       * UnitSeconds(s[m.unit])

\* total_seconds over a sequence of matches, lines 550-557.
RECURSIVE ScaledTotal(_, _)
ScaledTotal(s, ms) ==
    IF ms = <<>> THEN 0
    ELSE ScaledSeconds(s, Head(ms)) + ScaledTotal(s, Tail(ms))

\* int(total_seconds), line 558: the total is never negative.
parse_duration(s) == ScaledTotal(s, findall(s, 1)) \div Pow10(MaxLen)

\* parse_duration on its own, over every text of up to MaxLen characters.
InitParse ==
    /\ InitEngine
    /\ purePc = "input"
    /\ p_text \in Texts
    /\ p_total = 0
    /\ b_initial = 0
    /\ b_remaining = 0
    /\ b_filled = 0

ParseRun ==
    /\ purePc = "input"
    /\ purePc' = "done"
    /\ p_total' = parse_duration(p_text)
    /\ UNCHANGED <<now, regVars, startVars, viewVars, disabled, pauseResult,
                   endPc, msgVars, taskVars, loopVars, histVars, clicks, ends,
                   deletes, p_text, b_initial, b_remaining, b_filled>>

SpecParse == InitParse /\ [][ParseRun]_vars

\* ------------------------------------------------------ create_timer_embed
\* A progress bar whose filled part grows as the time runs out.
filled_length_Elapsed(remaining, initial) ==
    IF initial > 0
      THEN (bar_length * (initial - (IF remaining > 0 THEN remaining ELSE 0)))
              \div initial
      ELSE 0

\* Lines 180-182: int(bar_length * (max(0, remaining_seconds) /
\* self.initial_duration)), 0 for an initial duration of 0.  The quotient is
\* never negative, so int() is the floor.
filled_length(remaining, initial) ==
    IF initial > 0
      THEN (bar_length * (IF remaining > 0 THEN remaining ELSE 0)) \div initial
      ELSE 0

\* Line 183: the length of '█' * filled_length + '░' * (bar_length -
\* filled_length); a string times a negative number is empty.
BarCells(filled) ==
    filled + (IF bar_length - filled > 0 THEN bar_length - filled ELSE 0)

\* create_timer_embed on its own: a first render for any initial duration up
\* to MaxInitial and any remaining time from one second below zero to one
\* above the initial duration, then one render per second as the remaining
\* time runs down.
InitBar ==
    /\ InitEngine
    /\ purePc = "input"
    /\ p_text = <<>>
    /\ p_total = 0
    /\ b_initial \in 0..MaxInitial
    /\ b_remaining \in -1..(b_initial + 1)
    /\ b_filled = 0

BarRender ==
    /\ purePc = "input"
    /\ purePc' = "done"
    /\ b_filled' = filled_length(b_remaining, b_initial)
    /\ UNCHANGED <<now, regVars, startVars, viewVars, disabled, pauseResult,
                   endPc, msgVars, taskVars, loopVars, histVars, clicks, ends,
                   deletes, p_text, p_total, b_initial, b_remaining>>

BarTick ==
    /\ purePc = "done"
    /\ b_remaining >= 0
    /\ b_remaining' = b_remaining - 1
    /\ b_filled' = filled_length(b_remaining - 1, b_initial)
    /\ UNCHANGED <<now, regVars, startVars, viewVars, disabled, pauseResult,
                   endPc, msgVars, taskVars, loopVars, histVars, clicks, ends,
                   deletes, purePc, p_text, p_total, b_initial>>

NextBar == BarRender \/ BarTick

SpecBar == InitBar /\ [][NextBar]_vars

\* ------------------------------------------------------------------ claims

\* C1: when the watcher sends time's-up, the wall-clock time the timer has
\* spent Running equals its initial duration, whatever pauses and resumes
\* came before.
C1_RunningTimeEqualsDuration ==
    \A t \in Timers : taskPc[t] = "up" => runTime[t] = dur[t]

\* C2: at most one active timer per identity: never two live watchers for
\* one identity, and every live watcher is the task of its identity's
\* registry entry.
C2_OneActiveTimerPerIdentity ==
    /\ \A t \in Timers :
          taskPc[t] \in LivePc =>
             /\ Registered(timerId[t])
             /\ active_timers[timerId[t]].task = t
    /\ \A t, u \in Timers :
          (t # u /\ timerId[t] = timerId[u]) =>
             ~(taskPc[t] \in LivePc /\ taskPc[u] \in LivePc)

\* C3: a started timer that no user ended and whose message is still there
\* reaches Finished: once its watcher has stopped, exactly one time's-up was
\* sent for it and its identity is out of the registry.
C3_StartedTimerFinishes ==
    \A t \in Timers :
       (taskPc[t] \in {"done", "cancelled", "failed"}
          /\ ~endClicked[t] /\ msg[t] = "live")
       => (life[t] = "finished" /\ upCalls[t] = 1 /\ ~Registered(timerId[t]))

\* C4: the watcher finishes a timer only from Running, never while Paused.
C4_FinishedOnlyFromRunning ==
    \A t \in Timers : life[t] = "finished" => ~finPaused[t]

\* C5: while a timer is paused, its display shows the remaining time captured
\* at the pause instant, end_time - now.
C5_PausedDisplayShowsCaptured ==
    \A t \in Timers :
       (msg[t] = "live" /\ msgStatus[t] = "Paused" /\ v_paused[t])
       => msgRemaining[t] = v_end_time[t] - v_pause_start[t]

\* C6: the "1 minute left" notification is sent at most once per timer,
\* exactly once for a timer that reaches Finished, and the warning flag, once
\* set, stays set.
C6_WarningSentOnce ==
    /\ [](\A t \in Timers :
            /\ warnCalls[t] <= 1
            /\ life[t] = "finished" => warnCalls[t] = 1)
    /\ [][\A t \in Timers : warned[t] => warned'[t]]_vars

\* C6 witness: a timer of more than a minute, paused at the instant its
\* remaining time reached 60 seconds and resumed, has finished with one
\* warning.
C6_Witness ==
    \E t \in Timers :
       /\ life[t] = "finished"
       /\ dur[t] > WarnSeconds
       /\ v_pause_start[t] = dur[t] - WarnSeconds
       /\ ~v_paused[t]
       /\ warnCalls[t] = 1

\* C7: End on a Running or Paused timer takes its identity out of the
\* registry and cancels its watcher, and once End has been applied no
\* 1-minute or time's-up notification is sent for that timer.
C7_EndStopsTimer ==
    [][\A t \in Timers :
          /\ (life[t] = "active" /\ EndClick(t)) =>
                (~Registered(timerId[t])' /\ taskPc'[t] \notin LivePc)
          /\ life[t] = "ended" =>
                (warnCalls'[t] = warnCalls[t] /\ upCalls'[t] = upCalls[t])]_vars

\* C8: a second End on a timer that End was already applied to changes
\* neither the registry nor any watcher and sends no notification.
C8_SecondEndIsNoOp ==
    [][\A t \in Timers :
          (life[t] = "ended" /\ EndClick(t)) =>
             UNCHANGED <<active_timers, active_order, taskPc, warnCalls, upCalls>>]_vars

\* C9: Pause/Resume on a timer that is Finished or Ended, its identity out of
\* the registry, changes nothing of the view (paused flag, pause instant, end
\* instant, button label), raises no error and is acknowledged.
C9_StaleToggleIsNoOp ==
    [][\A t \in Timers :
          (life[t] \in {"finished", "ended"} /\ ~Registered(timerId[t])
              /\ PauseClick(t)) =>
             /\ v_paused'[t] = v_paused[t]
             /\ v_pause_start'[t] = v_pause_start[t]
             /\ v_end_time'[t] = v_end_time[t]
             /\ label'[t] = label[t]
             /\ pauseResult'[t] = "ack"]_vars

\* C10: every Finished timer ends with the buttons of its message disabled:
\* the watcher's last edit is performed although stop_timer has cancelled
\* the watcher's own task.
C10_FinishedControlsDisabled ==
    \A t \in Timers :
       (life[t] = "finished" /\ taskPc[t] \notin LivePc /\ msg[t] = "live")
       => msgDisabled[t]

\* C11: once End, applied to a Running or Paused timer, has written the Ended
\* display, the tick loop starts no further edit of that timer's message
\* (every edit it starts carries a Running, Paused or Finished display), so
\* the Ended display is the last one.  An edit that was already in flight
\* when End was clicked is not counted.
C11_EndRenderIsFinal ==
    [][\A t \in Timers :
          (msg[t] = "live" /\ msgStatus[t] = "Ended" /\ life[t] = "ended") =>
             ~(/\ loopPc' = "edit"
               /\ Head(loopSnap') = t
               /\ (loopPc # "edit" \/ loopSnap' # loopSnap))]_vars

\* C12: a /time request that was rejected (duration <= 0, or identity already
\* registered) has created nothing: the step that rejects it leaves the
\* registry, the watchers and the messages as they were, and the rejected
\* invocation never has a registry entry, a watcher or a message.
C12_RejectedStartCreatesNothing ==
    /\ [](\A t \in Timers :
             timePc[t] \in {"invalid", "collision"} =>
                /\ taskPc[t] = "none"
                /\ msg[t] = "none"
                /\ \A i \in Ids : active_timers[i].view # t /\ active_timers[i].task # t)
    /\ [][\A t \in Timers :
             (timePc[t] = "idle" /\ timePc'[t] \in {"invalid", "collision"}) =>
                UNCHANGED <<active_timers, active_order, taskPc, msgVars>>]_vars

\* C12 witness: a request was rejected for an identity that has a registry
\* entry, which is another invocation's.
C12_Witness ==
    \E t \in Timers :
       /\ timePc[t] = "collision"
       /\ Registered(timerId[t])
       /\ active_timers[timerId[t]].view # t

\* C13: a timer that has reached Finished or Ended does not keep its identity
\* blocked: its entry is out of the registry, and a later /time request for
\* the same identity with a positive duration is accepted, not rejected as a
\* collision.
C13_TerminatedIdentityIsFree ==
    /\ [](\A t \in Timers :
             life[t] \in {"finished", "ended"} => active_timers[timerId[t]].view # t)
    /\ [][\A t, u \in Timers :
             (/\ life[t] \in {"finished", "ended"}
              /\ u # t
              /\ timePc[u] = "idle"
              /\ timePc'[u] \notin {"idle", "invalid"}
              /\ timerId'[u] = timerId[t]) =>
                timePc'[u] = "send"]_vars

\* C13 witness: the second request for an identity, made after the first
\* timer of that identity had finished, has registered a new running timer.
C13_Witness ==
    /\ life[1] = "finished"
    /\ timerId[2] = timerId[1]
    /\ timePc[2] = "done"
    /\ v_end_time[2] = v_end_time[1] + dur[2]
    /\ life[2] = "active"
    /\ Registered(timerId[2])
    /\ active_timers[timerId[2]].view = 2
    /\ ~active_timers[timerId[2]].paused

\* C14: a failing notification send does not stop the watcher, so no identity
\* is ever left in the registry with a watcher that has died.
C14_SendFailureIsCaught ==
    \A t \in Timers :
       (Registered(timerId[t]) /\ active_timers[timerId[t]].task = t)
          => taskPc[t] # "failed"

\* C15: a failure while refreshing one timer's display never stops the tick
\* loop: the loop is always waiting for its next iteration or in the middle
\* of one.
C15_RefreshFailureDoesNotStopLoop ==
    loopPc \in {"wait", "edit"}

\* C16: when the tick loop's refresh of a registered timer finds the message
\* deleted, that step takes the identity out of the registry and cancels the
\* watcher; from then on the watcher sends no notification and the identity
\* stays free for a new /time request.
C16_DeletedMessageStopsTimer ==
    /\ [][\A t \in Timers :
             (/\ loopPc = "edit"
              /\ Head(loopSnap) = t
              /\ msg[t] = "deleted"
              /\ Registered(timerId[t])
              /\ active_timers[timerId[t]].view = t
              /\ LoopEditDone) =>
                (~Registered(timerId[t])' /\ taskPc'[t] \notin LivePc)]_vars
    /\ [][\A t \in Timers :
             life[t] = "removed" =>
                /\ warnCalls'[t] = warnCalls[t]
                /\ upCalls'[t] = upCalls[t]
                /\ taskPc'[t] \notin LivePc
                /\ ~Registered(timerId[t])']_vars

\* C16 witness: the message of a registered timer was deleted, the tick loop
\* has removed the timer, its watcher is cancelled and the clock has moved on.
C16_Witness ==
    \E t \in Timers :
       /\ life[t] = "removed"
       /\ msg[t] = "deleted"
       /\ taskPc[t] = "cancelled"
       /\ ~Registered(timerId[t])
       /\ now >= v_end_time[t]
       /\ upCalls[t] = 0

\* C17: parse_duration returns the truncated sum of value x multiplier over
\* exactly the numbers that touch their unit letter (a number with blanks
\* between it and the unit letter is no match), which is never negative and
\* is 0 for a text without such a number.
C17_ParseSumsImmediateMatches ==
    purePc = "done" =>
       /\ p_total >= 0
       /\ p_total =
             ScaledTotal(p_text,
                         SelectSeq(findall(p_text, 1), LAMBDA m : m.unit = m.to))
                \div Pow10(MaxLen)

\* C18: for every remaining and initial duration the bar has exactly 25 cells
\* and round(25 x clamp(remaining, 0, initial) / initial) of them are filled,
\* none when the initial duration is 0.
C18_FilledIsRounded ==
    purePc = "done" =>
       /\ BarCells(b_filled) = bar_length
       /\ b_filled =
             IF b_initial = 0 THEN 0
             ELSE LET c == IF b_remaining < 0 THEN 0
                           ELSE IF b_remaining > b_initial THEN b_initial
                           ELSE b_remaining
                  IN (2 * bar_length * c + b_initial) \div (2 * b_initial)

\* C19: for a fixed positive initial duration the number of filled cells
\* never grows as the remaining seconds decrease, is 25 when the remaining
\* time is the initial duration and 0 when it is 0.
C19_FilledIsMonotone ==
    /\ [](purePc = "done" /\ b_initial > 0 =>
             /\ b_remaining = b_initial => b_filled = bar_length
             /\ b_remaining = 0 => b_filled = 0)
    /\ [][(purePc = "done" /\ b_initial > 0 /\ b_remaining' < b_remaining) =>
             b_filled' <= b_filled]_vars

\* C19 witness: a bar that was full at the start has run down, through a
\* partly filled bar, to the last second before it is empty.
C19_Witness ==
    /\ purePc = "done"
    /\ b_initial = MaxInitial
    /\ b_remaining = 1
    /\ b_filled > 0
    /\ b_filled < bar_length

\* C20: whenever a registered timer is Running, the completion instant its
\* watcher holds equals the completion instant its view holds.
C20_ClocksAgree ==
    \A t \in Timers :
       (/\ life[t] = "active"
        /\ taskPc[t] \in {"sleep", "warn", "up"}
        /\ Registered(timerId[t])
        /\ active_timers[timerId[t]].view = t
        /\ ~active_timers[timerId[t]].paused
        /\ ~v_paused[t]) =>
          w_end_time[t] = v_end_time[t]

\* C21: Resume shifts the view's completion instant by exactly the elapsed
\* pause: Pause records the instant p and leaves the completion instant alone,
\* nothing moves either while the view is paused, and right after Resume the
\* view's remaining time is what it was at p.  This holds for every cycle.
C21_ResumeKeepsRemaining ==
    [][\A t \in Timers :
          /\ (~v_paused[t] /\ v_paused'[t]) =>
                (v_pause_start'[t] = now /\ v_end_time'[t] = v_end_time[t])
          /\ (v_paused[t] /\ v_paused'[t]) =>
                (v_pause_start'[t] = v_pause_start[t] /\ v_end_time'[t] = v_end_time[t])
          /\ (v_paused[t] /\ ~v_paused'[t]) =>
                v_end_time'[t] - now' = v_end_time[t] - v_pause_start[t]]_vars

\* C21 witness: a view was paused and resumed twice, the second pause at
\* least a second after the timer's start and a second long overall.
C21_Witness ==
    \E t \in Timers :
       /\ clicks = 4
       /\ ~v_paused[t]
       /\ v_pause_start[t] > 0
       /\ v_end_time[t] > dur[t]
       /\ life[t] = "active"

\* C22: deregistration is idempotent.  The first of End, the tick loop's
\* deleted-message cleanup and the watcher's own expiry to call stop_timer for
\* a timer removes its key and stops its watcher; a later call of stop_timer
\* for a timer that is already Ended, Finished or removed changes nothing in
\* the registry and cancels no task.
C22_DeregistrationIsIdempotent ==
    [][\A t \in Timers :
          (\/ EndClick(t)
           \/ UpDone(t)
           \/ (LoopEditDone /\ Head(loopSnap) = t /\ msg[t] # "live")) =>
             /\ life[t] = "active" =>
                   (~Registered(timerId[t])' /\ taskPc'[t] \notin LivePc \ {"edit"})
             /\ life[t] \in {"ended", "finished", "removed"} =>
                   /\ UNCHANGED <<active_timers, active_order>>
                   /\ \A u \in Timers :
                         taskPc'[u] = "cancelled" => taskPc[u] = "cancelled"]_vars

\* C23: for every registered timer the paused flag its view caches equals
\* the paused flag of its registry entry.
C23_PausedFlagsAgree ==
    \A t \in Timers :
       (Registered(timerId[t]) /\ active_timers[timerId[t]].view = t)
          => v_paused[t] = active_timers[timerId[t]].paused

\* C24: a Pause/Resume click, an End click or a deleted-message cleanup made
\* through the view of a timer that has terminated changes nothing of another
\* timer that is registered under the same identity: its registry entry, with
\* the paused flag, and its watcher stay as they are.  The later timer is one
\* whose request came at a later second than the terminated timer's (an
\* unpaused view was built at end_time - duration).
C24_StaleViewLeavesLaterTimer ==
    [][\A t, u \in Timers :
          (/\ t # u
           /\ life[t] \in {"ended", "finished", "removed"}
           /\ timerId[u] = timerId[t]
           /\ active_timers[timerId[u]].view = u
           /\ ~v_paused[t] /\ ~v_paused[u]
           /\ v_end_time[u] - dur[u] > v_end_time[t] - dur[t]
           /\ \/ PauseClick(t)
              \/ EndClick(t)
              \/ (LoopEditDone /\ Head(loopSnap) = t /\ msg[t] # "live")) =>
             /\ active_timers'[timerId[u]] = active_timers[timerId[u]]
             /\ taskPc'[u] = taskPc[u]]_vars

\* C25: a step of the timer of one identity (its start, a Pause/Resume or End
\* click on it, its watcher's steps up to expiry, the cleanup after its
\* message was deleted) leaves the registered timer of every other identity
\* as it was: registry entry with the paused flag, watcher task and the two
\* completion instants.
C25_OtherIdentityUnchanged ==
    [][\A t, u \in Timers :
          (/\ timerId'[t] # timerId'[u]
           /\ Registered(timerId[u])
           /\ active_timers[timerId[u]].view = u
           /\ \/ timePc'[t] # timePc[t]
              \/ PauseClick(t)
              \/ EndClick(t)
              \/ EndFinish(t)
              \/ TaskStart(t)
              \/ TaskWake(t)
              \/ WarnDone(t)
              \/ UpDone(t)
              \/ (LoopEditDone /\ Head(loopSnap) = t /\ msg[t] # "live")) =>
             /\ active_timers'[timerId[u]] = active_timers[timerId[u]]
             /\ taskPc'[u] = taskPc[u]
             /\ w_end_time'[u] = w_end_time[u]
             /\ v_end_time'[u] = v_end_time[u]]_vars

\* C25 witness: the timer of A has been stopped (ended, expired or cleaned up
\* after a pause) while the timer of B is registered with its watcher asleep.
C25_Witness ==
    /\ timerId[1] # timerId[2]
    /\ life[1] \in {"ended", "finished", "removed"}
    /\ v_pause_start[1] # NoTime
    /\ ~Registered(timerId[1])
    /\ life[2] = "active"
    /\ Registered(timerId[2])
    /\ taskPc[2] = "sleep"
====
